---- MODULE Spec2Model ----
(***************************************************************************)
(* Model of rocket-hawk's request guards (src/src/header.rs).              *)
(*                                                                         *)
(* A header value is a sequence of characters; a character is a one-       *)
(* character string, except KELVIN, which stands for the non-ASCII         *)
(* character U+212A.  A request is the ordered list of its (name, value)   *)
(* headers.  Each guard evaluation runs parse_header in three steps        *)
(* (header lookup, scheme split, credential parse).                        *)
(***************************************************************************)
EXTENDS Integers, Sequences, FiniteSets

(***************************************************************************)
(* Bounds                                                                  *)
(***************************************************************************)
MaxHeaders == 2

MaxPairHeaders == 2

MaxCaseHeaders == 1

(***************************************************************************)
(* Option values                                                           *)
(***************************************************************************)
None == <<>>

Some(v) == <<v>>

(***************************************************************************)
(* Characters and strings                                                  *)
(***************************************************************************)
SP == " "

TAB == "\t"

QUOTE == "\""

KELVIN == "U+212A"

Upper == <<"A","B","C","D","E","F","G","H","I","J","K","L","M",
           "N","O","P","Q","R","S","T","U","V","W","X","Y","Z">>

Lower == <<"a","b","c","d","e","f","g","h","i","j","k","l","m",
           "n","o","p","q","r","s","t","u","v","w","x","y","z">>

\* A lowercase that forgets to fold.
to_ascii_lowercase_id(c) == c

\* u8::to_ascii_lowercase: only A-Z change.
to_ascii_lowercase(c) ==
    IF \E i \in 1..26 : Upper[i] = c
    THEN Lower[CHOOSE i \in 1..26 : Upper[i] = c]
    ELSE c

\* A Unicode-aware lowercase, which also folds U+212A to k.
to_lowercase(c) == IF c = KELVIN THEN "k" ELSE to_ascii_lowercase(c)

eq_ignore_case_unicode(a, b) ==
    /\ Len(a) = Len(b)
    /\ \A i \in 1..Len(a) : to_lowercase(a[i]) = to_lowercase(b[i])

\* str::eq_ignore_ascii_case
eq_ignore_ascii_case(a, b) ==
    /\ Len(a) = Len(b)
    /\ \A i \in 1..Len(a) : to_ascii_lowercase(a[i]) = to_ascii_lowercase(b[i])

\* str::find(char): the 0-based index of the first occurrence, if any.
find(s, c) ==
    IF \E j \in 1..Len(s) : s[j] = c
    THEN Some((CHOOSE j \in 1..Len(s) :
                  s[j] = c /\ \A k \in 1..(j-1) : s[k] # c) - 1)
    ELSE None

\* &s[..i]
SliceTo(s, i) == SubSeq(s, 1, i)

\* &s[i..]
SliceFrom(s, i) == SubSeq(s, i + 1, Len(s))

\* The characters with the Unicode property White_Space.  Those beyond
\* U+00FF are written as their code point.
WhiteSpace ==
    { TAB, "\n", "", "\f", "\r", SP, "", " ",
      "U+1680", "U+2000", "U+2001", "U+2002", "U+2003", "U+2004", "U+2005",
      "U+2006", "U+2007", "U+2008", "U+2009", "U+200A", "U+2028", "U+2029",
      "U+202F", "U+205F", "U+3000" }

\* char::is_whitespace
is_whitespace(c) == c \in WhiteSpace

RECURSIVE trim_start(_)
trim_start(s) ==
    IF s # <<>> /\ is_whitespace(Head(s)) THEN trim_start(Tail(s)) ELSE s

RECURSIVE trim_end(_)
trim_end(s) ==
    IF s # <<>> /\ is_whitespace(s[Len(s)])
    THEN trim_end(SubSeq(s, 1, Len(s) - 1)) ELSE s

trim(s) == trim_end(trim_start(s))

RECURSIVE trim_start_sep(_)
trim_start_sep(s) ==
    IF s # <<>> /\ (Head(s) = "," \/ is_whitespace(Head(s)))
    THEN trim_start_sep(Tail(s)) ELSE s

(***************************************************************************)
(* The credential parser, hawk::Header::from_str (external crate): a list  *)
(* of name="value" attributes separated by commas and whitespace.  A       *)
(* credential is a record of optional fields: id, nonce, ext, app and dlg  *)
(* are strings, ts is a number of seconds, mac and hash are the bytes of   *)
(* a canonical, padded base64 value.                                       *)
(***************************************************************************)
Fields == {"id", "ts", "nonce", "mac", "ext", "hash", "app", "dlg"}

FieldName(attr) ==
    CASE attr = <<"i","d">> -> "id"
      [] attr = <<"t","s">> -> "ts"
      [] attr = <<"n","o","n","c","e">> -> "nonce"
      [] attr = <<"m","a","c">> -> "mac"
      [] attr = <<"e","x","t">> -> "ext"
      [] attr = <<"h","a","s","h">> -> "hash"
      [] attr = <<"a","p","p">> -> "app"
      [] attr = <<"d","l","g">> -> "dlg"
      [] OTHER -> "invalid"

EmptyHeader == [f \in Fields |-> None]

Ok(h) == [ok |-> TRUE, header |-> h]

Err(e) == [ok |-> FALSE, error |-> e]

HeaderParseError == [kind |-> "HeaderParseError"]

Msg(m) == [kind |-> "Msg", msg |-> m]

\* A decoded attribute value.
Value(v) == [ok |-> TRUE, value |-> v]

InvalidField(attr) ==
    Msg(<<"I","n","v","a","l","i","d",SP,"H","a","w","k",SP,
          "f","i","e","l","d",SP>> \o attr)

Digits == <<"0","1","2","3","4","5","6","7","8","9">>

IndexIn(alphabet, c) == CHOOSE k \in 1..Len(alphabet) : alphabet[k] = c

IsIn(alphabet, c) == \E k \in 1..Len(alphabet) : alphabet[k] = c

TimestampError ==
    Msg(<<"E","r","r","o","r",SP,"p","a","r","s","i","n","g",SP,
          "H","a","w","k",SP,"t","i","m","e","s","t","a","m","p">>)

\* An i64, held as its sign and the decimal digits of its magnitude (most
\* significant first, no leading zero).
I64(neg, mag) == [negative |-> neg, magnitude |-> mag]

\* The magnitudes of i64::MAX and i64::MIN.
I64MaxMagnitude == <<9,2,2,3,3,7,2,0,3,6,8,5,4,7,7,5,8,0,7>>

I64MinMagnitude == <<9,2,2,3,3,7,2,0,3,6,8,5,4,7,7,5,8,0,8>>

DigitsOf(s) == [k \in 1..Len(s) |-> IndexIn(Digits, s[k]) - 1]

RECURSIVE StripZeros(_)
StripZeros(d) == IF Len(d) > 1 /\ Head(d) = 0 THEN StripZeros(Tail(d)) ELSE d

\* a <= b for magnitudes without leading zeros.
MagnitudeLeq(a, b) ==
    \/ Len(a) < Len(b)
    \/ /\ Len(a) = Len(b)
       /\ \/ a = b
          \/ \E k \in 1..Len(a) : a[k] < b[k] /\ \A j \in 1..(k-1) : a[j] = b[j]

\* i64::from_str on a ts value: an optional sign, then at least one decimal
\* digit, within the range of an i64.
ParseSeconds(val) ==
    LET signed == val # <<>> /\ Head(val) \in {"+", "-"}
        neg == val # <<>> /\ Head(val) = "-"
        body == IF signed THEN Tail(val) ELSE val
    IN IF body # <<>> /\ \A k \in 1..Len(body) : IsIn(Digits, body[k])
       THEN LET mag == StripZeros(DigitsOf(body))
            IN IF MagnitudeLeq(mag, IF neg THEN I64MinMagnitude ELSE I64MaxMagnitude)
               THEN Value(I64(neg /\ mag # <<0>>, mag))
               ELSE Err(TimestampError)
       ELSE Err(TimestampError)

Base64Alphabet == Upper \o Lower \o Digits \o <<"+", "/">>

Base64Error ==
    Msg(<<"E","r","r","o","r",SP,"p","a","r","s","i","n","g",SP,
          "H","a","w","k",SP,"m","a","c">>)

\* The bytes of one group of four base64 characters, n of which carry data;
\* the bits of the last character that no byte takes must be zero.
Base64Group(g, n) ==
    LET v(k) == IF k <= n THEN IndexIn(Base64Alphabet, g[k]) - 1 ELSE 0
        bits == v(1) * 262144 + v(2) * 4096 + v(3) * 64 + v(4)
        unused == IF n = 2 THEN bits % 65536 ELSE IF n = 3 THEN bits % 256 ELSE 0
    IN IF unused = 0
       THEN Value(SubSeq(<<bits \div 65536, (bits \div 256) % 256, bits % 256>>, 1, n - 1))
       ELSE Err(Base64Error)

RECURSIVE Base64Groups(_)
Base64Groups(s) ==
    IF s = <<>> THEN Value(<<>>)
    ELSE LET g == SubSeq(s, 1, 4)
             n == IF g[3] = "=" THEN 2 ELSE IF g[4] = "=" THEN 3 ELSE 4
             first == Base64Group(g, n)
             rest == Base64Groups(SubSeq(s, 5, Len(s)))
         IN IF first.ok /\ rest.ok
            THEN Value(first.value \o rest.value)
            ELSE Err(Base64Error)

\* base64::decode: groups of four characters, padded with = at the end only.
Base64Decode(val) ==
    LET n == Len(val)
        pad == IF n >= 2 /\ val[n] = "=" /\ val[n-1] = "=" THEN 2
               ELSE IF n >= 1 /\ val[n] = "=" THEN 1 ELSE 0
    IN IF n % 4 = 0 /\ \A k \in 1..(n - pad) : IsIn(Base64Alphabet, val[k])
       THEN Base64Groups(val)
       ELSE Err(Base64Error)

\* The value an attribute stores: the text itself, or what it decodes to.
FieldValue(name, val) ==
    CASE name = "ts" -> ParseSeconds(val)
      [] name \in {"mac", "hash"} -> Base64Decode(val)
      [] OTHER -> Value(val)

RECURSIVE ParseFields(_, _)
ParseFields(p0, h) ==
    IF p0 = <<>> THEN Ok(h)
    ELSE
      LET p1 == trim_start_sep(p0)
          eq == find(p1, "=")
      IN IF eq = None THEN Err(HeaderParseError)
         ELSE
           LET attr == trim(SliceTo(p1, eq[1]))
               p2 == trim_start(SliceFrom(p1, eq[1] + 1))
           IN IF p2 = <<>> \/ Head(p2) # QUOTE THEN Err(HeaderParseError)
              ELSE
                LET p3 == Tail(p2)
                    end == find(p3, QUOTE)
                IN IF end = None THEN Err(HeaderParseError)
                   ELSE IF FieldName(attr) = "invalid"
                        THEN Err(InvalidField(attr))
                   ELSE LET v == FieldValue(FieldName(attr), SliceTo(p3, end[1]))
                        IN IF ~v.ok THEN Err(v.error)
                           ELSE ParseFields(
                                  trim_start(SliceFrom(p3, end[1] + 1)),
                                  [h EXCEPT ![FieldName(attr)] = Some(v.value)])

HeaderFromStr(s) == ParseFields(s, EmptyHeader)

(***************************************************************************)
(* Outcomes                                                                *)
(***************************************************************************)
Unauthorized == 401

BadRequest == 400

NoHeader == [kind |-> "NoHeader"]

BadHawk(e) == [kind |-> "BadHawk", inner |-> e]

Success(v) == [outcome |-> "Success", value |-> v]

Failure(status, err) == [outcome |-> "Failure", status |-> status, error |-> err]

\* struct AuthzHeader(Header)
AuthzHeader(h) == [AuthzHeader |-> h]

\* A step of parse_header either returns an outcome or goes on with a value.
ReturnEarly(o) == [returns |-> TRUE, outcome |-> o]

Continue(v) == [returns |-> FALSE, value |-> v]

(***************************************************************************)
(* parse_header, step by step                                              *)
(***************************************************************************)
\* Locate with the two failure statuses exchanged.
LocateSwapped(hdrs) ==
    CASE Len(hdrs) = 0 -> ReturnEarly(Failure(BadRequest, NoHeader))
      [] Len(hdrs) = 1 -> Continue(hdrs[1])
      [] OTHER -> ReturnEarly(Failure(Unauthorized, NoHeader))

\* Locate taking the first of several values.
LocateFirst(hdrs) ==
    CASE Len(hdrs) = 0 -> ReturnEarly(Failure(Unauthorized, NoHeader))
      [] OTHER -> Continue(hdrs[1])

\* header.rs 19-23: there must be exactly one header value.
Locate(hdrs) ==
    CASE Len(hdrs) = 0 -> ReturnEarly(Failure(Unauthorized, NoHeader))
      [] Len(hdrs) = 1 -> Continue(hdrs[1])
      [] OTHER -> ReturnEarly(Failure(BadRequest, NoHeader))

\* The scheme comparison with exact equality.
IsHawkExact(token) == token = <<"h","a","w","k">>

\* header.rs 28: the comparison of the scheme token.
IsHawk(token) == eq_ignore_ascii_case(token, <<"h","a","w","k">>)

\* The payload with its leading whitespace trimmed.
PayloadTrimmed(h, i) == trim_start(SliceFrom(h, i + 1))

\* header.rs 29: the payload is what follows the space found at index i.
Payload(h, i) == SliceFrom(h, i + 1)

\* SplitHawk taking a value without a space as a scheme with an empty payload.
SplitHawkNoSpace(h) ==
    LET i == find(h, SP)
    IN IF i # None
       THEN IF IsHawk(SliceTo(h, i[1]))
            THEN Continue(Payload(h, i[1]))
            ELSE ReturnEarly(Failure(Unauthorized, NoHeader))
       ELSE IF IsHawk(h)
            THEN Continue(<<>>)
            ELSE ReturnEarly(Failure(Unauthorized, NoHeader))

\* SplitHawk going on to the parser whatever the scheme.
SplitHawkAnyScheme(h) ==
    LET i == find(h, SP)
    IN IF i # None
       THEN Continue(Payload(h, i[1]))
       ELSE ReturnEarly(Failure(Unauthorized, NoHeader))

\* header.rs 26-35: split 'Hawk <value>' (case-insensitive).
SplitHawk(h) ==
    LET i == find(h, SP)
    IN IF i # None
       THEN IF IsHawk(SliceTo(h, i[1]))
            THEN Continue(Payload(h, i[1]))
            ELSE ReturnEarly(Failure(Unauthorized, NoHeader))
       ELSE ReturnEarly(Failure(Unauthorized, NoHeader))

\* ParseResult reporting a parse error as a missing header.
ParseResultNoHeader(r) ==
    IF r.ok
    THEN Success(AuthzHeader(r.header))
    ELSE Failure(Unauthorized, NoHeader)

\* header.rs 38-41: the outcome for the parser's result r.
ParseResult(r) ==
    IF r.ok
    THEN Success(AuthzHeader(r.header))
    ELSE Failure(Unauthorized, BadHawk(r.error))

(***************************************************************************)
(* Guards and requests                                                     *)
(***************************************************************************)
Guards == {"AuthorizationHeader", "ServerAuthorizationHeader"}

\* Both guards reading the same header.
HeaderNameSame(g) == "authorization"

\* The name each from_request passes to parse_header.
HeaderName(g) ==
    IF g = "AuthorizationHeader" THEN "authorization" ELSE "server-authorization"

\* Header names compare without regard to ASCII case.
Uncased(n) ==
    CASE n = "Authorization" -> "authorization"
      [] n = "Server-Authorization" -> "server-authorization"
      [] OTHER -> n

RECURSIVE Get(_, _)
\* request.headers().get(name): the values of the headers named name, in order.
Get(req, name) ==
    IF req = <<>> THEN <<>>
    ELSE IF Uncased(Head(req).name) = Uncased(name)
         THEN <<Head(req).value>> \o Get(Tail(req), name)
         ELSE Get(Tail(req), name)

\* from_request maps the guard's constructor over a successful outcome.
Wrap(g, o) ==
    IF o.outcome = "Success" THEN Success([guard |-> g, inner |-> o.value]) ELSE o

\* Deref for AuthorizationHeader / ServerAuthorizationHeader: &(self.0).0
Deref(v) == v.inner.AuthzHeader

(***************************************************************************)
(* Inputs                                                                  *)
(***************************************************************************)
HAWK == <<"H","a","w","k">>

\* header.rs 95: const HEADER
HEADER == <<"i","d","=",QUOTE,"x","y","z",QUOTE,",",SP,"t","s","=",QUOTE,
           "1","3","5","3","8","3","2","2","3","4",QUOTE,",",SP,"n","o",
           "n","c","e","=",QUOTE,"a","b","c",QUOTE,",",SP,"m","a","c","=",
           QUOTE,"6","R","4","r","V","5","i","E","+","N","P","o","y","m",
           "+","W","w","j","e","H","z","j","A","G","X","U","t","L","N","I",
           "x","m","o","1","v","p","M","o","f","p","L","A","E","=",QUOTE>>

BADFIELD == <<"n","o","s","u","c","h","f","i","e","l","d","=",QUOTE,"a","b","c",QUOTE>>

\* header.rs 132: the value "bearer 123"
BEARER == <<"b","e","a","r","e","r">>

Schemes == { HAWK, <<"H","A","W","K">>, <<"h","a","w","k">>, <<"h","A","w","K">> }

HeaderValues ==
    { s \o <<SP>> \o HEADER : s \in Schemes }
    \cup { s \o <<SP>> \o BADFIELD : s \in {HAWK, <<"h","a","w","k">>} }
    \cup { HAWK, <<"H","A","W","K">>, <<"a","b","c","d","e","f","g">>, <<>> }
    \cup { BEARER \o <<SP,"1","2","3">>, BEARER \o <<TAB,"1","2","3">> }
    \cup { HAWK \o <<SP>>, HAWK \o <<SP,SP,"x">>, HAWK \o <<SP,SP>> \o HEADER }
    \cup { <<SP>> \o HAWK \o <<SP>> \o HEADER,
           <<"H","a","w","k","x",SP>> \o HEADER,
           <<"H","a","w",SP>> \o HEADER,
           <<"H","a","w",KELVIN,SP>> \o HEADER,
           HAWK \o <<TAB>> \o HEADER }

PairValues == { HAWK \o <<SP>> \o HEADER, HAWK \o <<SP>> \o BADFIELD }

CaseValues ==
    { s \o <<SP>> \o HEADER : s \in {HAWK, <<"H","A","W","K">>, <<"h","a","w","k">>} }
    \cup { s \o <<SP>> \o BADFIELD : s \in {HAWK, <<"h","a","w","k">>} }

HeaderNames == {"Authorization", "authorization", "Server-Authorization"}

PairNames == {"authorization", "server-authorization"}

RECURSIVE SeqsUpTo(_, _)
SeqsUpTo(S, n) ==
    IF n = 0 THEN { <<>> }
    ELSE LET shorter == SeqsUpTo(S, n - 1)
         IN shorter \cup { Append(q, e) : q \in { r \in shorter : Len(r) = n - 1 }, e \in S }

Requests == SeqsUpTo([name : HeaderNames, value : HeaderValues], MaxHeaders)

PairRequests == SeqsUpTo([name : PairNames, value : PairValues], MaxPairHeaders)

CaseRequests == SeqsUpTo([name : PairNames, value : CaseValues], MaxCaseHeaders)

(***************************************************************************)
(* State: one entry per guard evaluation in progress.                      *)
(***************************************************************************)
VARIABLES guard, request, pc, hdr, hawk, outcome, calls, steps

vars == <<guard, request, pc, hdr, hawk, outcome, calls, steps>>

Start(evals, guards, requests) ==
    /\ guard \in [evals -> guards]
    /\ request \in [evals -> requests]
    /\ pc = [e \in evals |-> "lookup"]
    /\ hdr = [e \in evals |-> None]
    /\ hawk = [e \in evals |-> None]
    /\ outcome = [e \in evals |-> None]
    /\ calls = [e \in evals |-> <<>>]
    /\ steps = [e \in evals |-> <<>>]

\* One request, one guard.
Init == Start({"e1"}, Guards, Requests)

\* Two evaluations, each of its own request, running concurrently.
InitPair == Start({"e1", "e2"}, Guards, PairRequests)

\* Two evaluations of requests that differ in the letter case of the scheme.
InitCase == Start({"e1", "e2"}, Guards, CaseRequests)

\* Returning from parse_header: from_request wraps the outcome.
Return(e, o) ==
    /\ outcome' = [outcome EXCEPT ![e] = Some(Wrap(guard[e], o))]
    /\ pc' = [pc EXCEPT ![e] = "done"]

\* header.rs 18-23: extract the header from the request.
Lookup(e) ==
    /\ pc[e] = "lookup"
    /\ steps' = [steps EXCEPT ![e] = Append(@, "lookup")]
    /\ LET r == Locate(Get(request[e], HeaderName(guard[e])))
       IN IF r.returns
          THEN /\ Return(e, r.outcome)
               /\ UNCHANGED hdr
          ELSE /\ hdr' = [hdr EXCEPT ![e] = Some(r.value)]
               /\ pc' = [pc EXCEPT ![e] = "split"]
               /\ UNCHANGED outcome
    /\ UNCHANGED <<guard, request, hawk, calls>>

\* header.rs 25-35: split 'Hawk <value>'.
Split(e) ==
    /\ pc[e] = "split"
    /\ steps' = [steps EXCEPT ![e] = Append(@, "split")]
    /\ LET r == SplitHawk(hdr[e][1])
       IN IF r.returns
          THEN /\ Return(e, r.outcome)
               /\ UNCHANGED hawk
          ELSE /\ hawk' = [hawk EXCEPT ![e] = Some(r.value)]
               /\ pc' = [pc EXCEPT ![e] = "parse"]
               /\ UNCHANGED outcome
    /\ UNCHANGED <<guard, request, hdr, calls>>

\* header.rs 37-41: parse the hawk-specific value.
Parse(e) ==
    /\ pc[e] = "parse"
    /\ steps' = [steps EXCEPT ![e] = Append(@, "parse")]
    /\ calls' = [calls EXCEPT ![e] = Append(@, hawk[e][1])]
    /\ Return(e, ParseResult(HeaderFromStr(hawk[e][1])))
    /\ UNCHANGED <<guard, request, hdr, hawk>>

Next == \E e \in DOMAIN pc : Lookup(e) \/ Split(e) \/ Parse(e)

Spec == Init /\ [][Next]_vars

SpecPair == InitPair /\ [][Next]_vars

SpecCase == InitCase /\ [][Next]_vars

(***************************************************************************)
(* Vocabulary of the properties                                            *)
(***************************************************************************)
Evals == DOMAIN pc

Done(e) == pc[e] = "done"

\* The header name of the guard of evaluation e.
OwnName(e) ==
    IF guard[e] = "AuthorizationHeader" THEN "authorization" ELSE "server-authorization"

\* The values the request of e carries for the guard's header name.
Matching(e) == Get(request[e], OwnName(e))

\* The letter-case variants of the scheme token.
HawkVariants ==
    { [i \in 1..4 |-> IF b[i] THEN <<"H","A","W","K">>[i] ELSE <<"h","a","w","k">>[i]] :
        b \in [1..4 -> BOOLEAN] }

HasSpace(v) == \E j \in 1..Len(v) : v[j] = SP

FirstSpace(v) == CHOOSE j \in 1..Len(v) : v[j] = SP /\ \A k \in 1..(j-1) : v[k] # SP

\* The first whitespace-delimited token of v; empty when v has none.
FirstToken(v) ==
    LET t == trim_start(v)
        ends == { j \in 1..Len(t) : is_whitespace(t[j]) }
    IN IF ends = {} THEN t
       ELSE SubSeq(t, 1, (CHOOSE j \in ends : \A k \in ends : j <= k) - 1)

\* v is '<scheme> <payload>' with <scheme> a letter-case variant of Hawk.
IsHawkForm(v) == Len(v) >= 5 /\ SubSeq(v, 1, 4) \in HawkVariants /\ v[5] = SP

PayloadOf(v) == SubSeq(v, 6, Len(v))

FailedWith(e, status, err) == outcome[e] = Some(Failure(status, err))

\* Same failure kind and status, or the same credential behind the guard.
SameOutcome(o1, o2) ==
    /\ o1 # None /\ o2 # None
    /\ o1[1].outcome = o2[1].outcome
    /\ IF o1[1].outcome = "Success"
       THEN Deref(o1[1].value) = Deref(o2[1].value)
       ELSE o1[1] = o2[1]

(***************************************************************************)
(* C1: a request with no value for the guard's header name ends in         *)
(* Failure with NoHeader and status 401 Unauthorized.                      *)
(***************************************************************************)
C1_NoHeaderUnauthorized ==
    \A e \in Evals :
        Done(e) /\ Len(Matching(e)) = 0 => FailedWith(e, 401, NoHeader)

C1_Witness ==
    \E e \in Evals :
        /\ Done(e) /\ Len(Matching(e)) = 0 /\ Len(request[e]) = 2
        /\ FailedWith(e, 401, NoHeader)

(***************************************************************************)
(* C2: a request with two or more values for the guard's header name ends  *)
(* in Failure with NoHeader and status 400 Bad Request, whatever the       *)
(* values are, identical or valid Hawk headers included.                   *)
(***************************************************************************)
C2_MultipleBadRequest ==
    \A e \in Evals :
        Done(e) /\ Len(Matching(e)) >= 2 => FailedWith(e, 400, NoHeader)

C2_Witness ==
    \E e \in Evals :
        /\ Done(e)
        /\ Matching(e) = << HAWK \o <<SP>> \o HEADER, HAWK \o <<SP>> \o HEADER >>
        /\ FailedWith(e, 400, NoHeader)

(***************************************************************************)
(* C3: with exactly one matching header whose first whitespace-delimited   *)
(* token is not a letter-case variant of Hawk, the evaluation ends in      *)
(* Failure with NoHeader and status 401.                                   *)
(***************************************************************************)
C3_OtherSchemeUnauthorized ==
    \A e \in Evals :
        Done(e) /\ Len(Matching(e)) = 1 /\ FirstToken(Matching(e)[1]) \notin HawkVariants
            => FailedWith(e, 401, NoHeader)

C3_Witness ==
    \E e \in Evals :
        /\ Done(e)
        /\ Matching(e) = << BEARER \o <<SP,"1","2","3">> >>
        /\ FailedWith(e, 401, NoHeader)

(***************************************************************************)
(* C4: with exactly one matching header whose value has no space, the      *)
(* evaluation ends in Failure with NoHeader and status 401, also when the  *)
(* whole value is the scheme token in any letter case.                     *)
(***************************************************************************)
C4_NoSpaceUnauthorized ==
    \A e \in Evals :
        Done(e) /\ Len(Matching(e)) = 1 /\ ~HasSpace(Matching(e)[1])
            => FailedWith(e, 401, NoHeader)

C4_Witness ==
    \E e \in Evals :
        /\ Done(e)
        /\ Matching(e) = << <<"H","A","W","K">> >>
        /\ FailedWith(e, 401, NoHeader)

(***************************************************************************)
(* C5: with exactly one matching header '<scheme> <payload>' whose scheme  *)
(* is a letter-case variant of Hawk and whose payload the parser rejects,  *)
(* the evaluation ends in Failure with status 401 and BadHawk carrying     *)
(* the parser's error unchanged.                                           *)
(***************************************************************************)
C5_BadHawkCarriesParserError ==
    \A e \in Evals :
        Done(e) /\ Len(Matching(e)) = 1 /\ IsHawkForm(Matching(e)[1])
                /\ ~HeaderFromStr(PayloadOf(Matching(e)[1])).ok
            => FailedWith(e, 401, BadHawk(HeaderFromStr(PayloadOf(Matching(e)[1])).error))

C5_Witness ==
    \E e \in Evals :
        /\ Done(e)
        /\ Matching(e) = << HAWK \o <<SP>> \o BADFIELD >>
        /\ outcome[e][1].outcome = "Failure"
        /\ outcome[e][1].status = 401
        /\ outcome[e][1].error.kind = "BadHawk"
        /\ outcome[e][1].error.inner =
              Msg(<<"I","n","v","a","l","i","d",SP,"H","a","w","k",SP,"f","i","e","l","d",SP,
                    "n","o","s","u","c","h","f","i","e","l","d">>)

(***************************************************************************)
(* C6: with exactly one matching header 'Hawk <payload>' whose payload     *)
(* the parser accepts, the evaluation ends in Success and the guard's      *)
(* Deref exposes exactly the credential the parser returned.               *)
(***************************************************************************)
C6_SuccessExposesCredential ==
    \A e \in Evals :
        Done(e) /\ Len(Matching(e)) = 1
                /\ IsHawkForm(Matching(e)[1]) /\ SubSeq(Matching(e)[1], 1, 4) = HAWK
                /\ HeaderFromStr(PayloadOf(Matching(e)[1])).ok
            => /\ outcome[e][1].outcome = "Success"
               /\ outcome[e][1].value.guard = guard[e]
               /\ Deref(outcome[e][1].value) = HeaderFromStr(PayloadOf(Matching(e)[1])).header

C6_Witness ==
    \E e \in Evals :
        /\ Done(e)
        /\ Matching(e) = << HAWK \o <<SP>> \o HEADER >>
        /\ outcome[e][1].outcome = "Success"
        /\ Deref(outcome[e][1].value).id = Some(<<"x","y","z">>)
        /\ Deref(outcome[e][1].value).ts = Some(I64(FALSE, <<1,3,5,3,8,3,2,2,3,4>>))
        /\ Deref(outcome[e][1].value).nonce = Some(<<"a","b","c">>)
        /\ Deref(outcome[e][1].value).mac = Some(<<233,30,43,87,152,132,248,211,232,202,111,150,194,55,135,206,
                  48,6,93,75,75,52,140,102,163,91,233,50,135,233,44,1>>)

(***************************************************************************)
(* C7: the scheme is matched without regard to letter case: two            *)
(* evaluations of the same guard, one of a request whose single matching   *)
(* header is '<variant> <payload>' and one of a request whose single       *)
(* matching header is 'Hawk <payload>', end in the same outcome.           *)
(***************************************************************************)
C7_CaseInsensitiveScheme ==
    \A e1, e2 \in Evals :
        /\ Done(e1) /\ Done(e2) /\ guard[e1] = guard[e2]
        /\ Len(Matching(e1)) = 1 /\ Len(Matching(e2)) = 1
        /\ IsHawkForm(Matching(e1)[1])
        /\ Matching(e2)[1] = HAWK \o <<SP>> \o PayloadOf(Matching(e1)[1])
        => outcome[e1] = outcome[e2]

C7_Witness ==
    /\ Evals = {"e1", "e2"}
    /\ Done("e1") /\ Done("e2") /\ guard["e1"] = guard["e2"]
    /\ Matching("e1") = << <<"h","a","w","k",SP>> \o HEADER >>
    /\ Matching("e2") = << HAWK \o <<SP>> \o HEADER >>
    /\ outcome["e1"] = outcome["e2"]
    /\ outcome["e1"][1].outcome = "Success"

(***************************************************************************)
(* C8: the two guards behave identically: the AuthorizationHeader guard    *)
(* on a request whose authorization values are V and the                   *)
(* ServerAuthorizationHeader guard on a request whose server-authorization *)
(* values are V end in the same outcome; the outcome of a guard depends    *)
(* only on the values under its own header name.                           *)
(***************************************************************************)
C8_GuardsIdentical ==
    \A e1, e2 \in Evals :
        /\ Done(e1) /\ Done(e2)
        /\ \/ /\ guard[e1] = "AuthorizationHeader"
              /\ guard[e2] = "ServerAuthorizationHeader"
              /\ Get(request[e1], "authorization") = Get(request[e2], "server-authorization")
           \/ /\ guard[e1] = guard[e2]
              /\ Matching(e1) = Matching(e2)
        => SameOutcome(outcome[e1], outcome[e2])

C8_Witness ==
    /\ Evals = {"e1", "e2"}
    /\ Done("e1") /\ Done("e2")
    /\ guard["e1"] = "AuthorizationHeader" /\ guard["e2"] = "ServerAuthorizationHeader"
    /\ Get(request["e1"], "authorization") = << HAWK \o <<SP>> \o HEADER >>
    /\ Get(request["e2"], "server-authorization") = << HAWK \o <<SP>> \o HEADER >>
    /\ Len(request["e1"]) = 1 /\ Len(request["e2"]) = 2
    /\ outcome["e1"][1].outcome = "Success"
    /\ SameOutcome(outcome["e1"], outcome["e2"])

(***************************************************************************)
(* C9: an evaluation passes header lookup, scheme split and credential     *)
(* parse in that order, each at most once, and a failure ends it: the      *)
(* parser is called at most once, and only after exactly one header was    *)
(* found and its scheme token matched.  A finished evaluation is in        *)
(* exactly one of Success, NoHeader, MalformedCredential.                  *)
(***************************************************************************)
DecisionPoints == <<"lookup", "split", "parse">>

Terminal(o) ==
    \/ o.outcome = "Success"
    \/ o.outcome = "Failure" /\ o.error.kind \in {"NoHeader", "BadHawk"}

C9_ShortCircuit ==
    \A e \in Evals :
        /\ Len(steps[e]) <= 3 /\ steps[e] = SubSeq(DecisionPoints, 1, Len(steps[e]))
        /\ Len(calls[e]) <= 1
        /\ calls[e] # <<>> =>
              /\ steps[e] = DecisionPoints
              /\ Len(Matching(e)) = 1
              /\ HasSpace(Matching(e)[1])
              /\ SubSeq(Matching(e)[1], 1, FirstSpace(Matching(e)[1]) - 1) \in HawkVariants
        /\ Done(e) <=> outcome[e] # None
        /\ Done(e) =>
              /\ Terminal(outcome[e][1])
              /\ Len(Matching(e)) # 1 => steps[e] = <<"lookup">>
              /\ outcome[e][1].outcome = "Failure" /\ outcome[e][1].error.kind = "NoHeader"
                    => calls[e] = <<>>

C9_Witness ==
    \E e \in Evals :
        /\ Done(e)
        /\ Matching(e) = << <<"H","a","w",SP>> \o HEADER >>
        /\ steps[e] = <<"lookup", "split">>
        /\ calls[e] = <<>>
        /\ FailedWith(e, 401, NoHeader)

(***************************************************************************)
(* C10: when the scheme split succeeds, the parser receives exactly what   *)
(* follows the first space of the header value, untrimmed: ' x' for        *)
(* 'Hawk  x', and the empty string for 'Hawk ', which does not fail with   *)
(* NoHeader.                                                               *)
(***************************************************************************)
C10_PayloadUnmodified ==
    \A e \in Evals :
        Done(e) /\ Len(Matching(e)) = 1 /\ HasSpace(Matching(e)[1])
                /\ SubSeq(Matching(e)[1], 1, FirstSpace(Matching(e)[1]) - 1) \in HawkVariants
            => /\ calls[e] = << SubSeq(Matching(e)[1], FirstSpace(Matching(e)[1]) + 1,
                                       Len(Matching(e)[1])) >>
               /\ ~FailedWith(e, 401, NoHeader)
               /\ ~FailedWith(e, 400, NoHeader)

C10_Witness ==
    \E e \in Evals :
        /\ Done(e)
        /\ Matching(e) = << HAWK \o <<SP,SP,"x">> >>
        /\ calls[e] = << <<SP,"x">> >>

C10_WitnessEmpty ==
    \E e \in Evals :
        /\ Done(e)
        /\ Matching(e) = << HAWK \o <<SP>> >>
        /\ calls[e] = << <<>> >>
        /\ ~FailedWith(e, 401, NoHeader)

====
